---- MODULE Spec2Model ----
(***************************************************************************)
(* ControllerGen (src/src/gen/ControllerGen.ts): the generator of a CRUD   *)
(* controller and the request-time behaviour of the handlers it emits.     *)
(*                                                                         *)
(* A handler body is emitted by the source as interpolated text.  Here a   *)
(* body is the sequence of its statements, in the order of the text; each  *)
(* statement is a record Stmt(op, names, checks, paths).  The actions      *)
(* below execute one statement of the running handler per step, with the   *)
(* meaning the emitted TypeScript has.                                     *)
(***************************************************************************)
EXTENDS Integers, Sequences, FiniteSets, TLC

VARIABLES
  meta,        \* the schema of config.model, as src/util/Model reports it
  controller,  \* the controller file last written by generate()
  registry,    \* src/api/<version>/import.ts, as a sequence of lines
  handler,     \* the handler serving the current request, "none" when idle
  pc,          \* index of the next statement of that handler
  req,         \* the request: caller, body, uploaded files
  store,       \* the stored record the request addresses
  frame,       \* the handler's local constants
  io,          \* what the handler did: persistence calls, response, throw
  dels,        \* the state of each FileUploader.checkAndDeleteFile call
  cli          \* the last run of the static ControllerGen.init()

vars == <<meta, controller, registry, handler, pc, req, store, frame, io, dels, cli>>

genVars == <<meta, controller, registry, cli>>

-----------------------------------------------------------------------------
(* Bounds *)

MaxOwner == 2    \* owner-verified fields of a model
MaxConf == 2     \* confidential fields of a model
MaxFile == 2     \* File-typed fields of a model
MaxItems == 2    \* records a list query returns
MaxRegLen == 3   \* lines of the registry file before the first run
MaxName == 2     \* characters of the NAME argument

\* generate() is run while the registry is no longer than this
MaxRegistry == MaxRegLen + 4

Min(a, b) == IF a < b THEN a ELSE b

OwnerPool == <<"userId", "ownerId", "teamId", "editorId">>
ConfPool == <<"password", "token", "secret", "pin">>
FilePool == <<"image", "avatar", "cover", "banner">>

Prefix(pool, n) == SubSeq(pool, 1, Min(n, Len(pool)))

Range(s) == {s[i] : i \in DOMAIN s}

UserIds == {"u1", "u2"}

-----------------------------------------------------------------------------
(* The schema lookups of src/util/Model, as the generator uses them *)

\* The schemas the generator is run on.  owner, conf and files are the
\* lists getOwnerVerifiedFields, getConfidentialFields and
\* getFieldsByType(File) return; ownerRel says the owner-verified fields
\* are relations; rel is a further relation field; relConf the confidential
\* fields of the relations' target model.
Metas ==
  { [hasModel |-> TRUE, owner |-> Prefix(OwnerPool, no), ownerRel |-> orl,
     conf |-> Prefix(ConfPool, nc), files |-> Prefix(FilePool, nf),
     rel |-> r, relConf |-> rc] :
      no \in 0..MaxOwner, orl \in BOOLEAN, nc \in 0..MaxConf, nf \in 0..MaxFile,
      r \in {<< >>, <<"author">>}, rc \in {<< >>, <<"apiKey">>} }

NoModel ==
  [hasModel |-> FALSE, owner |-> << >>, ownerRel |-> FALSE, conf |-> << >>,
   files |-> << >>, rel |-> << >>, relConf |-> << >>]

\* A schema is kept once: flags that describe no field are left FALSE/empty.
\* At most one of the three field lists has more than one field.
WellFormedMeta(m) ==
  /\ (m.owner = << >> => ~m.ownerRel)
  /\ ((~m.ownerRel /\ m.rel = << >>) => m.relConf = << >>)
  /\ Cardinality({l \in {"owner", "conf", "files"} : Len(m[l]) > 1}) <= 1

\* getFieldsByType(model, FieldType.Relation): the keys, or << >> for null
relationsFields(m) == (IF m.ownerRel THEN m.owner ELSE << >>) \o m.rel

\* getFieldMeta(model, field).relation is set
isRelation(m, f) == f \in Range(relationsFields(m))

-----------------------------------------------------------------------------
(* Emitted statements *)

Stmt(op, names, checks, paths) ==
  [op |-> op, names |-> names, checks |-> checks, paths |-> paths]

S(op) == Stmt(op, << >>, << >>, << >>)

SN(op, names) == Stmt(op, names, << >>, << >>)

\* An emitted comparison `<target>.<ref> !== authUser.id`; ref is the text
\* interpolated after the dot, as the list of names it is printed from; rel
\* says the emitted text casts to the relation's interface and reads .id.
Check(target, ref, rel) == [target |-> target, ref |-> ref, rel |-> rel]

\* The order of `for (let i = xs.length; i--; )`: last element first
Descending(s) == [i \in 1..Len(s) |-> s[Len(s) + 1 - i]]

\* getAuthUserCode without the test of ownerVerifiedFields.length
getAuthUserCode_always(m) == << S("authUser") >>

getAuthUserCode(m) ==
  IF Len(m.owner) # 0 THEN << S("authUser") >> ELSE << >>

\* confRemovers of the model's own fields (lines 215-219)
ownConfRemovers(m) ==
  IF ~(Len(m.conf) # 0)
    THEN [i \in 1..Len(m.conf) |-> << Descending(m.conf)[i] >>]
    ELSE << >>

\* confRemovers of the relations' confidential fields (lines 221-235)
relConfRemovers(m) ==
  LET rels == Descending(relationsFields(m))
      rc == Descending(m.relConf)
  IN  IF Len(rc) = 0 THEN << >>
      ELSE [k \in 1..(Len(rels) * Len(rc)) |->
              << rels[((k - 1) \div Len(rc)) + 1], rc[((k - 1) % Len(rc)) + 1] >>]

getConfFieldRemovingCode(m, singleRecord) ==
  LET index == IF singleRecord THEN "0" ELSE "i"
      confRemovers == ownConfRemovers(m) \o relConfRemovers(m)
  IN  IF Len(confRemovers) # 0
        THEN << Stmt("redact", << index, "result" >>, << >>, confRemovers) >>
        ELSE << >>

getQueryCodeForSingleInstance(m) ==
  LET ov == Descending(m.owner)
      ownerChecks == [i \in 1..Len(ov) |-> Check("result", m.owner, isRelation(m, ov[i]))]
  IN  getAuthUserCode(m)
      \o << S("retrieveId"),
            SN("find", relationsFields(m)),
            Stmt("ifNoRecordOrNotOwner", << >>, ownerChecks, << >>) >>
      \o getConfFieldRemovingCode(m, TRUE)
      \o << SN("res.json", << "result" >>) >>

getQueryCodeForMultiInstance(m) ==
  LET ownerQueries == Descending(m.owner)
  IN  getAuthUserCode(m)
      \o << S("query2vql") >>
      \o (IF Len(ownerQueries) # 0 THEN << SN("ifNonAdminFilter", ownerQueries) >> ELSE << >>)
      \o << S("findQuery") >>
      \o getConfFieldRemovingCode(m, FALSE)
      \o << SN("res.json", << "result" >>) >>

getCountCode(m) ==
  << S("query2vql"), S("count"), SN("res.json", << "result" >>) >>

getQueryCode(m, isSingle) ==
  IF isSingle THEN getQueryCodeForSingleInstance(m) ELSE getQueryCodeForMultiInstance(m)

\* getInsertCode with the owner assignment emitted after the insert
getInsertCode_assignLate(m) ==
  << S("authUser"), S("newFromBody"), S("validate"), S("insert"),
     SN("ifNonAdminAssign", Descending(m.owner)),
     SN("res.json", << "result" >>) >>

getInsertCode(m) ==
  LET ownerAssigns == Descending(m.owner)
  IN  getAuthUserCode(m)
      \o << S("newFromBody") >>
      \o (IF Len(ownerAssigns) # 0 THEN << SN("ifNonAdminAssign", ownerAssigns) >> ELSE << >>)
      \o << S("validate"), S("insert") >>
      \o getConfFieldRemovingCode(m, TRUE)
      \o << SN("res.json", << "result" >>) >>

\* getUpdateCode with the validation emitted after the update
getUpdateCode_validateLate(m) ==
  getAuthUserCode(m)
  \o << S("newFromBody") >>
  \o (IF Len(m.owner) # 0 THEN << SN("ifNonAdminAssign", Descending(m.owner)) >> ELSE << >>)
  \o << S("findById"),
        Stmt("ifNoRecordOrNotOwner", << >>,
             [i \in 1..Len(m.owner) |-> Check("instance", << Descending(m.owner)[i] >>, FALSE)],
             << >>),
        S("update"),
        S("validate") >>
  \o getConfFieldRemovingCode(m, TRUE)
  \o << SN("res.json", << "uResult" >>) >>

getUpdateCode(m) ==
  LET ov == Descending(m.owner)
      ownerChecks == ov
      ownerInlineChecks == [i \in 1..Len(ov) |-> Check("instance", << ov[i] >>, FALSE)]
  IN  getAuthUserCode(m)
      \o << S("newFromBody") >>
      \o (IF Len(ownerChecks) # 0 THEN << SN("ifNonAdminAssign", ownerChecks) >> ELSE << >>)
      \o << S("validate"),
            S("findById"),
            Stmt("ifNoRecordOrNotOwner", << >>, ownerInlineChecks, << >>),
            S("update") >>
      \o getConfFieldRemovingCode(m, TRUE)
      \o << SN("res.json", << "uResult" >>) >>

getDeleteCode(m) ==
  LET ov == Descending(m.owner)
      ownerChecks == [i \in 1..Len(ov) |-> Check("result", m.owner, FALSE)]
      fieldsOfTypeFile == m.files
      deleteFileCode ==
        IF Len(fieldsOfTypeFile) # 0
          THEN << S("filesToBeDeleted") >>
               \o [i \in 1..Len(fieldsOfTypeFile) |-> SN("pushFile", << fieldsOfTypeFile[i] >>)]
               \o << S("deleteFilesLoop") >>
          ELSE << >>
      ownerCheckCode ==
        IF Len(ownerChecks) # 0
          THEN << Stmt("ifNonAdminNoRecordOrNotOwner", << >>, ownerChecks, << >>) >>
          ELSE << >>
  IN  getAuthUserCode(m)
      \o << S("retrieveId"), SN("find", << >>) >>
      \o ownerCheckCode
      \o << S("newFromResult") >>
      \o deleteFileCode
      \o << S("remove"), SN("res.json", << "dResult" >>) >>

getUploadCode(m) ==
  LET fileNames == m.files
      code ==
        IF Len(fileNames) = 1
          THEN << SN("replaceFile", << fileNames[1] >>),
                  S("ifOldAwaitDelete") >>
          ELSE << S("delList") >>
               \o [i \in 1..Len(fileNames) |-> SN("ifUplPushDelete", << fileNames[i] >>)]
               \o << S("awaitAll") >>
  IN  << S("retrieveId"), SN("find", << >>), S("ifCountNot1"),
         S("newFromResult"), S("parseUpload") >>
      \o code
      \o << S("update"), SN("res.json", << "uResult" >>) >>

-----------------------------------------------------------------------------
(* The controller file *)

Route(verb, suffix, acl, method) ==
  [verb |-> verb, suffix |-> suffix, acl |-> acl, method |-> method]

Method(name, body) == [name |-> name, body |-> body]

\* The file of a controller generated without a model: route() is empty.
EmptyController == [written |-> TRUE, routes |-> << >>, methods |-> << >>]

NoController == [written |-> FALSE, routes |-> << >>, methods |-> << >>]

\* this.filesFields, set by the constructor's init() (lines 113-115)
filesFields(m) == IF m.hasModel THEN m.files ELSE << >>

\* addCRUDOperations without the test of this.filesFields
addCRUDOperations_alwaysUpload(m) ==
  [written |-> TRUE,
   routes |->
     << Route("get", "/count", "Read", "getCount"),
        Route("get", "/:id", "Read", "getOne"),
        Route("get", "", "Read", "getMany"),
        Route("post", "", "Add", "add"),
        Route("put", "", "Edit", "update"),
        Route("delete", "/:id", "Delete", "remove"),
        Route("post", "/file/:id", "Edit", "upload") >>,
   methods |->
     << Method("getCount", getCountCode(m)),
        Method("getOne", getQueryCode(m, TRUE)),
        Method("getMany", getQueryCode(m, FALSE)),
        Method("add", getInsertCode(m)),
        Method("update", getUpdateCode(m)),
        Method("remove", getDeleteCode(m)),
        Method("upload", getUploadCode(m)) >>]

\* Each appendContent to routeMethod adds a route; each addResponseMethod a
\* method.  suffix is what follows ${this.routingPath} in the emitted path.
addCRUDOperations(m) ==
  LET crudRoutes ==
        << Route("get", "/count", "Read", "getCount"),
           Route("get", "/:id", "Read", "getOne"),
           Route("get", "", "Read", "getMany"),
           Route("post", "", "Add", "add"),
           Route("put", "", "Edit", "update"),
           Route("delete", "/:id", "Delete", "remove") >>
      crudMethods ==
        << Method("getCount", getCountCode(m)),
           Method("getOne", getQueryCode(m, TRUE)),
           Method("getMany", getQueryCode(m, FALSE)),
           Method("add", getInsertCode(m)),
           Method("update", getUpdateCode(m)),
           Method("remove", getDeleteCode(m)) >>
  IN  IF Len(filesFields(m)) # 0
        THEN [written |-> TRUE,
              routes |-> Append(crudRoutes, Route("post", "/file/:id", "Edit", "upload")),
              methods |-> Append(crudMethods, Method("upload", getUploadCode(m)))]
        ELSE [written |-> TRUE, routes |-> crudRoutes, methods |-> crudMethods]

\* The body of the controller's method of that name
Body(c, name) ==
  LET i == CHOOSE j \in DOMAIN c.methods : c.methods[j].name = name
  IN  c.methods[i].body

HasMethod(c, name) == \E j \in DOMAIN c.methods : c.methods[j].name = name

-----------------------------------------------------------------------------
(* The registry file and generate() *)

\* The markers of ./core/Placeholder and the two lines generate() inserts
PlaceholderImport == "///<vesta:import/>"

PlaceholderExpressController == "///<vesta:expressController/>"

importCode == "import {XController} from './controller/XController';"

embedCode == "x: XController,"

OtherLine == "// hand-written line"

\* String.prototype.search: the index of the first match, -1 without one.
\* The file is a sequence of lines, so index 0 is the first line.
search(code, marker) ==
  IF \E i \in DOMAIN code : code[i] = marker
    THEN (CHOOSE i \in DOMAIN code :
            code[i] = marker /\ \A j \in 1..(i - 1) : code[j] # marker) - 1
    ELSE -1

\* String.prototype.indexOf(line) >= 0
contains(code, line) == \E i \in DOMAIN code : code[i] = line

\* String.prototype.replace with a string pattern: the first match only,
\* the text unchanged without one.
replace(code, marker, lines) ==
  LET at == search(code, marker)
  IN  IF at < 0 THEN code
      ELSE SubSeq(code, 1, at) \o lines \o SubSeq(code, at + 2, Len(code))

\* Lines 90-102: the registry after generate(); a number is truthy unless 0.
patchRegistry(code) ==
  IF search(code, PlaceholderExpressController) # 0
    THEN IF contains(code, importCode)
           THEN code
           ELSE replace(replace(code, PlaceholderImport,
                                << importCode, PlaceholderImport >>),
                        PlaceholderExpressController,
                        << embedCode, PlaceholderExpressController >>)
    ELSE code

\* Line 101 is reached: writeFile(filePath, code)
registryWritten(code) ==
  search(code, PlaceholderExpressController) # 0 /\ ~contains(code, importCode)

\* Lines 86-89: the controller file generate() writes
controllerFile(m) ==
  IF m.hasModel THEN addCRUDOperations(m) ELSE EmptyController

-----------------------------------------------------------------------------
(* The command line, as ArgParser hands it to the static init() *)

\* Characters of a NAME: a lower-case letter, an upper-case letter, a digit
Lower == {"p"}

Upper == {"P"}

Digit == {"2"}

\* argParser.get(): the NAME, << >> when it is missing
Names == UNION {[1..n -> Lower \cup Upper \cup Digit] : n \in 0..MaxName}

\* /^[a-z]+$/i.exec(name) with a letter class that is not the code's: digits too
nameMatches_alnum(name) ==
  Len(name) > 0 /\ \A i \in DOMAIN name : name[i] \in Lower \cup Upper \cup Digit

\* /^[a-z]+$/i.exec(name): one or more letters, of either case (flag i)
nameMatches(name) ==
  Len(name) > 0 /\ \A i \in DOMAIN name : name[i] \in Lower \cup Upper

\* argParser.get("--model", null): null without the option, the boolean
\* true for `--model User` (no =), else the text after the =
Null == "null"

TrueFlag == "boolean true"

ModelOptions == {Null, TrueFlag, "true", "User"}

\* config.model.toString() of a value that is not null
modelToString(v) == IF v = TrueFlag THEN "true" ELSE v

IdleCli ==
  [called |-> FALSE, name |-> << >>, model |-> Null, logged |-> "", thrown |-> "none",
   constructed |-> FALSE, mkdir |-> FALSE, writes |-> {}]

-----------------------------------------------------------------------------
(* Requests *)

HandlerKinds == {"getCount", "getOne", "getMany", "add", "update", "remove", "upload"}

Undefined == "undefined"

\* Owner values and file names of a record, per field
OwnerValues(m) == [Range(m.owner) -> UserIds]

NoOwners(m) == [f \in Range(m.owner) |-> Undefined]

FileValues(m) == [Range(m.files) -> {"old", Undefined}]

NoFiles(m) == [f \in Range(m.files) |-> Undefined]

\* The confidential paths a record of the model carries, with the given
\* relations resolved to embedded objects
ConfPaths(m, loaded) ==
  {<< f >> : f \in Range(m.conf)}
    \cup {<< r, g >> : r \in Range(loaded), g \in Range(m.relConf)}

Row(owner, files, paths) == [owner |-> owner, files |-> files, paths |-> paths]

IdleReq ==
  [isAdmin |-> FALSE, authId |-> "u1", owner |-> << >>, valid |-> TRUE, upl |-> {}]

IdleStore == [exists |-> FALSE, owner |-> << >>, files |-> << >>, count |-> 0]

IdleFrame ==
  [authUser |-> FALSE, instance |-> << >>, result |-> << >>, uResult |-> << >>,
   dResult |-> << >>, filter |-> << >>, filesToBeDeleted |-> << >>,
   oldFileName |-> Undefined, upl |-> {}]

NoCall == [op |-> "none", owner |-> << >>, files |-> << >>]

IdleIo ==
  [persist |-> NoCall, sent |-> FALSE, response |-> << >>, thrown |-> "none",
   failed |-> {}, logged |-> {}]

IdleDels(m) == [f \in Range(m.files) |-> "idle"]

\* What each handler reads of the request and of the stored record; the
\* rest is left at one value.
ReadsBody(kind) == kind \in {"add", "update"}

ReadsRecord(kind) == kind \in {"getOne", "update", "remove", "upload"}

ReadsOwner(kind) == kind \in {"getOne", "update", "remove"}

\* The handlers whose text names authUser and isAdmin when the model has
\* owner-verified fields
ReadsCaller(m, kind) ==
  Len(m.owner) # 0 /\ kind \in {"getOne", "getMany", "add", "update", "remove"}

ReadsFiles(kind) == kind \in {"remove", "upload"}

Requests(m, kind) ==
  { [isAdmin |-> a, authId |-> u, owner |-> o, valid |-> v, upl |-> up] :
      a \in BOOLEAN,
      u \in (IF ReadsCaller(m, kind) THEN UserIds ELSE {"u1"}),
      o \in (IF ReadsBody(kind) THEN OwnerValues(m) ELSE {NoOwners(m)}),
      v \in (IF ReadsBody(kind) THEN BOOLEAN ELSE {TRUE}),
      up \in (IF kind = "upload" THEN SUBSET Range(m.files) ELSE {{}}) }

\* The stored record a request addresses: none, or one with its values;
\* count is the number of records a list query matches.
Stores(m, kind) ==
  { [exists |-> FALSE, owner |-> NoOwners(m), files |-> NoFiles(m), count |-> n] :
      n \in (IF kind = "getMany" THEN 0..MaxItems ELSE {0}) }
    \cup
  { [exists |-> TRUE, owner |-> o, files |-> f, count |-> 0] :
      o \in (IF ReadsOwner(kind) THEN OwnerValues(m)
             ELSE IF ReadsRecord(kind) THEN {[f \in Range(m.owner) |-> "u1"]} ELSE {}),
      f \in (IF ReadsFiles(kind) THEN FileValues(m) ELSE {NoFiles(m)}) }

Active == handler # "none"

Code == Body(controller, handler)

Running == Active /\ io.thrown = "none" /\ pc <= Len(Code)

Cur == Code[pc]

Finished == Active /\ (io.thrown # "none" \/ pc > Len(Code))

-----------------------------------------------------------------------------
(* Meaning of the emitted expressions *)

Inst(owner, files) == [owner |-> owner, files |-> files]

\* The record find() returns, with the named relations resolved
StoredRow(loaded) == Row(store.owner, store.files, ConfPaths(meta, loaded))

\* `<target>.<ref> !== authUser.id`.  A ref printed from several names reads
\* `a,b`: a comma expression whose second operand is an undeclared name.
EvalCheck(c) ==
  LET rec == IF c.target = "result" THEN frame.result[1] ELSE frame.instance
  IN  IF Len(c.ref) # 1 THEN "ReferenceError"
      ELSE IF rec.owner[c.ref[1]] # req.authId THEN "true" ELSE "false"

\* c1 || c2 || ..., left to right, stopping at the first that is not false
RECURSIVE OrChain(_)
OrChain(cs) ==
  IF cs = << >> THEN "false"
  ELSE LET v == EvalCheck(Head(cs))
       IN  IF v = "false" THEN OrChain(Tail(cs)) ELSE v

\* The condition of the emitted `if (...) throw new DatabaseError(...)`:
\*   !result.items.length || (!isAdmin && (checks))          (lines 267, 340)
\*   !isAdmin && (!result.items.length || checks)            (line 386)
\* isAdmin is a constant of the handler only after the auth statement.
GuardOutcome(stmt) ==
  LET empty == Len(frame.result) = 0
      isAdmin == IF frame.authUser THEN (IF req.isAdmin THEN "true" ELSE "false")
                 ELSE "ReferenceError"
  IN  IF stmt.op = "ifNoRecordOrNotOwner"
        THEN IF empty THEN "true"
             ELSE IF stmt.checks = << >> THEN "false"
             ELSE IF isAdmin = "false" THEN OrChain(stmt.checks)
             ELSE IF isAdmin = "true" THEN "false" ELSE isAdmin
        ELSE IF isAdmin = "false"
               THEN (IF empty THEN "true" ELSE OrChain(stmt.checks))
               ELSE IF isAdmin = "true" THEN "false" ELSE isAdmin

\* delete result.items[k].<path> for every path
Redacted(row, paths) == [row EXCEPT !.paths = @ \ Range(paths)]

\* Promise.race in place of Promise.all: settled with the first call settled
PromiseAll_race(d) ==
  IF \A f \in DOMAIN d : d[f] \in {"idle", "pending"}
    THEN (IF \E f \in DOMAIN d : d[f] = "pending" THEN "pending" ELSE "fulfilled")
    ELSE IF \E f \in DOMAIN d : d[f] = "rejected" THEN "rejected" ELSE "fulfilled"

\* Promise.all over the calls pushed to delList: rejected with the first
\* rejection, fulfilled once every call is fulfilled.
PromiseAll(d) ==
  IF \E f \in DOMAIN d : d[f] = "rejected" THEN "rejected"
  ELSE IF \E f \in DOMAIN d : d[f] = "pending" THEN "pending"
  ELSE "fulfilled"

-----------------------------------------------------------------------------
(* Actions *)

Step(f, i) ==
  /\ frame' = f
  /\ io' = i
  /\ pc' = pc + 1
  /\ UNCHANGED <<genVars, handler, req, store, dels>>

Throw(err) ==
  /\ io' = [io EXCEPT !.thrown = err]
  /\ UNCHANGED <<genVars, handler, pc, req, store, frame, dels>>

\* The constructor and generate() (lines 80-103, 105-126)
Generate ==
  /\ ~Active
  /\ Len(registry) <= MaxRegistry
  /\ controller' = controllerFile(meta)
  /\ registry' = patchRegistry(registry)
  /\ UNCHANGED <<meta, handler, pc, req, store, frame, io, dels, cli>>

\* The static init() (lines 44-65), with the constructor and generate() it
\* calls: one run of `vesta gen controller <NAME> [--model...]`.  meta is
\* the schema of the model a --model=<Model> option names.
StaticInit ==
  /\ ~Active
  /\ Len(registry) <= MaxRegistry
  /\ \E name \in Names, model \in ModelOptions :
       \* meta is the schema of the model --model names, if it names one
       /\ meta.hasModel <=> (model # Null)
       /\ LET run == [IdleCli EXCEPT !.called = TRUE, !.name = name, !.model = model]
           IN  IF Len(name) = 0 \/ ~nameMatches(name)
                 THEN /\ cli' = [run EXCEPT !.logged = "Missing/Invalid controller name"]
                      /\ UNCHANGED <<controller, registry>>
               ELSE IF model = Null
                 THEN /\ cli' = [run EXCEPT !.thrown = "TypeError"]
                      /\ UNCHANGED <<controller, registry>>
               ELSE IF modelToString(model) = "true"
                 THEN /\ cli' = [run EXCEPT !.logged = "Missing/Invalid model name"]
                      /\ UNCHANGED <<controller, registry>>
               ELSE /\ cli' = [run EXCEPT !.constructed = TRUE, !.mkdir = TRUE,
                                          !.writes = {"controller"} \cup
                                            (IF registryWritten(registry) THEN {"registry"} ELSE {})]
                    /\ controller' = controllerFile(meta)
                    /\ registry' = patchRegistry(registry)
  /\ UNCHANGED <<meta, handler, pc, req, store, frame, io, dels>>

\* A request arrives at a registered route of the written controller.
StartRequest ==
  /\ ~Active
  /\ controller.written
  /\ \E r \in Range(controller.routes) :
       \E rq \in Requests(meta, r.method), st \in Stores(meta, r.method) :
         /\ handler' = r.method
         /\ pc' = 1
         /\ req' = rq
         /\ store' = st
         /\ frame' = IdleFrame
         /\ io' = IdleIo
         /\ dels' = IdleDels(meta)
  /\ UNCHANGED genVars

\* const authUser = this.getUserFromSession(req); const isAdmin = ...
ExecAuthUser ==
  /\ Running /\ Cur.op = "authUser"
  /\ Step([frame EXCEPT !.authUser = TRUE], io)

\* const id = ...; const query = ...; const filesToBeDeleted = []; const delList = []
ExecConst ==
  /\ Running /\ Cur.op \in {"retrieveId", "query2vql", "filesToBeDeleted", "delList"}
  /\ Step(frame, io)

\* const result = await Model.find(id, {relations}) / find(instance.id)
ExecFind ==
  /\ Running /\ Cur.op \in {"find", "findById"}
  /\ Step([frame EXCEPT !.result = IF store.exists THEN << StoredRow(Cur.names) >> ELSE << >>], io)

\* const result = await Model.find(query) / Model.count(query)
ExecFindQuery ==
  /\ Running /\ Cur.op \in {"findQuery", "count"}
  /\ LET row == Row([f \in Range(meta.owner) |-> req.authId], NoFiles(meta), ConfPaths(meta, << >>))
     IN  Step([frame EXCEPT !.result =
                 IF Cur.op = "count" THEN << >> ELSE [i \in 1..store.count |-> row]], io)

\* if (!isAdmin) { query.filter({...}); }
ExecFilter ==
  /\ Running /\ Cur.op = "ifNonAdminFilter"
  /\ IF ~frame.authUser THEN Throw("ReferenceError")
     ELSE Step([frame EXCEPT !.filter = IF req.isAdmin THEN @ ELSE Cur.names], io)

\* if (<guard>) { throw new DatabaseError(Err.Code.DBNoRecord, null); }
ExecOwnerGuard ==
  /\ Running /\ Cur.op \in {"ifNoRecordOrNotOwner", "ifNonAdminNoRecordOrNotOwner"}
  /\ LET g == GuardOutcome(Cur)
     IN  IF g = "true" THEN Throw("DBNoRecord")
         ELSE IF g = "false" THEN Step(frame, io)
         ELSE Throw(g)

\* delete result.items[0].x; ... / for (let i = ...) { delete result.items[i].x; ... }
ExecRedact ==
  /\ Running /\ Cur.op = "redact"
  /\ LET target == Cur.names[2]
         items == frame[target]
     IN  IF Cur.names[1] = "0"
           THEN IF Len(items) = 0 THEN Throw("TypeError")
                ELSE Step([frame EXCEPT ![target][1] = Redacted(@, Cur.paths)], io)
           ELSE Step([frame EXCEPT ![target] =
                        [i \in 1..Len(items) |-> Redacted(items[i], Cur.paths)]], io)

\* res.json(<result constant>)
ExecRespond ==
  /\ Running /\ Cur.op = "res.json"
  /\ Step(frame, [io EXCEPT !.sent = TRUE, !.response = frame[Cur.names[1]]])

\* const instance = new Model(req.body)
ExecNewFromBody ==
  /\ Running /\ Cur.op = "newFromBody"
  /\ Step([frame EXCEPT !.instance = Inst(req.owner, NoFiles(meta))], io)

\* const instance = new Model(result.items[0])
ExecNewFromResult ==
  /\ Running /\ Cur.op = "newFromResult"
  /\ Step([frame EXCEPT !.instance =
             IF Len(frame.result) = 0 THEN Inst(NoOwners(meta), NoFiles(meta))
             ELSE Inst(frame.result[1].owner, frame.result[1].files)], io)

\* if (!isAdmin) { instance.f = authUser.id; ... }
ExecAssign ==
  /\ Running /\ Cur.op = "ifNonAdminAssign"
  /\ IF ~frame.authUser THEN Throw("ReferenceError")
     ELSE Step([frame EXCEPT !.instance.owner =
                  [f \in DOMAIN @ |-> IF ~req.isAdmin /\ f \in Range(Cur.names)
                                        THEN req.authId ELSE @[f]]], io)

\* const validationError = instance.validate(); if (validationError) throw ...
ExecValidate ==
  /\ Running /\ Cur.op = "validate"
  /\ IF req.valid THEN Step(frame, io) ELSE Throw("ValidationError")

\* await instance.insert() / update() / remove()
ExecPersist ==
  /\ Running /\ Cur.op \in {"insert", "update", "remove"}
  /\ LET call == [op |-> Cur.op, owner |-> frame.instance.owner, files |-> frame.instance.files]
         row == Row(frame.instance.owner, frame.instance.files, ConfPaths(meta, << >>))
         f == IF Cur.op = "insert" THEN [frame EXCEPT !.result = << row >>]
              ELSE IF Cur.op = "update" THEN [frame EXCEPT !.uResult = << row >>]
              ELSE frame
     IN  Step(f, [io EXCEPT !.persist = call])

\* filesToBeDeleted.push(`${baseDirectory}/${instance.f}`)
ExecPushFile ==
  /\ Running /\ Cur.op = "pushFile"
  /\ Step([frame EXCEPT !.filesToBeDeleted = Append(@, Cur.names[1])], io)

\* for (let i = filesToBeDeleted.length; i--;) { try { await
\* FileUploader.checkAndDeleteFile(...) } catch (error) { req.log(...) } }
\* One iteration per step; the call succeeds or fails.
ExecDeleteFilesLoop ==
  /\ Running /\ Cur.op = "deleteFilesLoop"
  /\ LET n == Len(frame.filesToBeDeleted)
     IN  IF n = 0 THEN Step(frame, io)
         ELSE LET f == frame.filesToBeDeleted[n]
                  rest == [frame EXCEPT !.filesToBeDeleted = SubSeq(@, 1, n - 1)]
              IN  /\ \/ io' = io
                     \/ io' = [io EXCEPT !.failed = @ \cup {f}, !.logged = @ \cup {f}]
                  /\ frame' = rest
                  /\ UNCHANGED <<genVars, handler, pc, req, store, dels>>

\* if (result.items.length !== 1) { throw new Err(Err.Code.DBRecordCount, ...) }
ExecCountGuard ==
  /\ Running /\ Cur.op = "ifCountNot1"
  /\ IF Len(frame.result) # 1 THEN Throw("DBRecordCount") ELSE Step(frame, io)

\* await uploader.parse(req); const upl = await uploader.upload(destDirectory)
ExecParseUpload ==
  /\ Running /\ Cur.op = "parseUpload"
  /\ Step([frame EXCEPT !.upl = req.upl], io)

\* const oldFileName = instance.f; instance.f = upl.f
ExecReplaceFile ==
  /\ Running /\ Cur.op = "replaceFile"
  /\ LET f == Cur.names[1]
     IN  Step([frame EXCEPT !.oldFileName = frame.instance.files[f],
                            !.instance.files[f] = IF f \in frame.upl THEN "new" ELSE Undefined], io)

\* if (oldFileName) { await FileUploader.checkAndDeleteFile(...) }
\* The awaited call succeeds, or fails and the rejection leaves the handler.
ExecAwaitDelete ==
  /\ Running /\ Cur.op = "ifOldAwaitDelete"
  /\ IF frame.oldFileName = Undefined THEN Step(frame, io)
     ELSE \/ Step(frame, io)
          \/ /\ io' = [io EXCEPT !.thrown = "DeleteError", !.failed = @ \cup {"oldFileName"}]
             /\ UNCHANGED <<genVars, handler, pc, req, store, frame, dels>>

\* if (upl.f) { delList.push(FileUploader.checkAndDeleteFile(...).then(...)) }
\* The call is started, not awaited.
ExecPushDelete ==
  /\ Running /\ Cur.op = "ifUplPushDelete"
  /\ dels' = IF Cur.names[1] \in frame.upl THEN [dels EXCEPT ![Cur.names[1]] = "pending"] ELSE dels
  /\ pc' = pc + 1
  /\ UNCHANGED <<genVars, handler, req, store, frame, io>>

\* A started call settles: fulfilled, and its then-callback assigns
\* instance.f = upl.f; or rejected.
DeleteSettles ==
  /\ Active
  /\ \E f \in DOMAIN dels :
       /\ dels[f] = "pending"
       /\ \/ /\ dels' = [dels EXCEPT ![f] = "fulfilled"]
             /\ frame' = [frame EXCEPT !.instance.files[f] = "new"]
             /\ io' = io
          \/ /\ dels' = [dels EXCEPT ![f] = "rejected"]
             /\ frame' = frame
             /\ io' = [io EXCEPT !.failed = @ \cup {f}]
  /\ UNCHANGED <<genVars, handler, pc, req, store>>

\* await Promise.all(delList)
ExecAwaitAll ==
  /\ Running /\ Cur.op = "awaitAll"
  /\ PromiseAll(dels) # "pending"
  /\ IF PromiseAll(dels) = "rejected" THEN Throw("DeleteError") ELSE Step(frame, io)

\* The handler has returned or thrown (this.wrap passes a throw to next()).
EndRequest ==
  /\ Finished
  /\ handler' = "none"
  /\ pc' = 0
  /\ req' = IdleReq
  /\ store' = IdleStore
  /\ frame' = IdleFrame
  /\ io' = IdleIo
  /\ dels' = IdleDels(meta)
  /\ UNCHANGED genVars

-----------------------------------------------------------------------------
(* Specifications *)

StandardRegistry ==
  << OtherLine, PlaceholderImport, OtherLine, PlaceholderExpressController, OtherLine >>

Idle ==
  /\ handler = "none"
  /\ pc = 0
  /\ req = IdleReq
  /\ store = IdleStore
  /\ frame = IdleFrame
  /\ io = IdleIo
  /\ dels = IdleDels(meta)

\* A project whose registry has both markers, and any schema.
Init ==
  /\ meta \in {m \in Metas : WellFormedMeta(m)}
  /\ controller = NoController
  /\ registry = StandardRegistry
  /\ cli = IdleCli
  /\ Idle

Next ==
  \/ Generate
  \/ StartRequest
  \/ ExecAuthUser
  \/ ExecConst
  \/ ExecFind
  \/ ExecFindQuery
  \/ ExecFilter
  \/ ExecOwnerGuard
  \/ ExecRedact
  \/ ExecRespond
  \/ ExecNewFromBody
  \/ ExecNewFromResult
  \/ ExecAssign
  \/ ExecValidate
  \/ ExecPersist
  \/ ExecPushFile
  \/ ExecDeleteFilesLoop
  \/ ExecCountGuard
  \/ ExecParseUpload
  \/ ExecReplaceFile
  \/ ExecAwaitDelete
  \/ ExecPushDelete
  \/ DeleteSettles
  \/ ExecAwaitAll
  \/ EndRequest

Spec == Init /\ [][Next]_vars

\* Projects whose registry is any short file, hand-edited or not: markers
\* present, absent, repeated, in any order.
RegistryLines == {PlaceholderImport, PlaceholderExpressController, OtherLine}

Registries == UNION {[1..n -> RegistryLines] : n \in 0..MaxRegLen}

PlainModel ==
  [hasModel |-> TRUE, owner |-> << >>, ownerRel |-> FALSE, conf |-> << >>,
   files |-> << >>, rel |-> << >>, relConf |-> << >>]

InitPatch ==
  /\ meta \in {NoModel, PlainModel}
  /\ controller = NoController
  /\ registry \in Registries
  /\ cli = IdleCli
  /\ Idle

NextPatch == Generate

SpecPatch == InitPatch /\ [][NextPatch]_vars

\* One run of the command line tool in a project with any schema, a
\* registry with both markers and no controller yet.
\* One run of the command: the schema of the named model, or none without
\* --model
InitCli ==
  /\ meta \in {m \in Metas : WellFormedMeta(m)} \cup {NoModel}
  /\ controller = NoController
  /\ registry = StandardRegistry
  /\ cli = IdleCli
  /\ Idle

NextCli == ~cli.called /\ StaticInit

SpecCli == InitCli /\ [][NextCli]_vars

-----------------------------------------------------------------------------
(* Claims *)

Has(body, op) == \E i \in DOMAIN body : body[i].op = op

Pos(body, op) == CHOOSE i \in DOMAIN body : body[i].op = op

Count(code, line) == Cardinality({i \in DOMAIN code : code[i] = line})

ResponseKinds == {"getOne", "getMany", "add", "update"}

\* C1: the written controller of a model registers, in this order,
\* GET /count (Read), GET /:id (Read), GET "" (Read), POST "" (Add),
\* PUT "" (Edit), DELETE /:id (Delete), and POST /file/:id (Edit) exactly
\* when the model has a File field: 7 routes with File fields, 6 without,
\* each bound to one method of its own.
C1_RouteTable ==
  (controller.written /\ meta.hasModel) =>
    LET six == << <<"get", "/count", "Read">>, <<"get", "/:id", "Read">>,
                  <<"get", "", "Read">>, <<"post", "", "Add">>,
                  <<"put", "", "Edit">>, <<"delete", "/:id", "Delete">> >>
        want == IF Len(meta.files) # 0
                  THEN Append(six, <<"post", "/file/:id", "Edit">>) ELSE six
        got == [i \in DOMAIN controller.routes |->
                  << controller.routes[i].verb, controller.routes[i].suffix,
                     controller.routes[i].acl >>]
    IN  /\ got = want
        /\ Len(controller.routes) = (IF Len(meta.files) # 0 THEN 7 ELSE 6)
        /\ Len(controller.methods) = Len(controller.routes)
        /\ \A i \in DOMAIN controller.routes :
             Cardinality({j \in DOMAIN controller.methods :
                            controller.methods[j].name = controller.routes[i].method}) = 1
        /\ \A i, j \in DOMAIN controller.routes :
             controller.routes[i].method = controller.routes[j].method => i = j

C1_Witness ==
  /\ controller.written
  /\ Len(meta.files) # 0
  /\ Len(controller.routes) = 7
  /\ handler = "upload"

\* C2: for a model with confidential fields, each of the detail, list,
\* create and update handlers has a redaction statement deleting exactly
\* those fields of the record, of item 0 in the single-record handlers and
\* of every item in the list handler.
C2_ConfidentialDeleted ==
  (controller.written /\ Len(meta.conf) # 0) =>
    \A kind \in ResponseKinds :
      LET body == Body(controller, kind)
      IN  /\ Has(body, "redact")
          /\ {p \in Range(body[Pos(body, "redact")].paths) : Len(p) = 1}
               = {<< f >> : f \in Range(meta.conf)}
          /\ body[Pos(body, "redact")].names[1]
               = (IF kind = "getMany" THEN "i" ELSE "0")

\* C3: in the create handler of a model with owner-verified fields the
\* owner assignment stands after the construction of the instance and
\* before validate and insert; the inserted record of a non-admin caller
\* has the caller's id in every owner-verified field, that of an admin
\* caller has the values of the request body.
C3_CreateAssignsOwner ==
  (controller.written /\ Len(meta.owner) # 0) =>
    LET body == Body(controller, "add")
    IN  /\ Has(body, "ifNonAdminAssign")
        /\ Pos(body, "newFromBody") < Pos(body, "ifNonAdminAssign")
        /\ Pos(body, "ifNonAdminAssign") < Pos(body, "validate")
        /\ Pos(body, "validate") < Pos(body, "insert")
        /\ (handler = "add" /\ io.persist.op = "insert") =>
             IF req.isAdmin
               THEN io.persist.owner = req.owner
               ELSE \A f \in Range(meta.owner) : io.persist.owner[f] = req.authId

C3_Witness ==
  /\ handler = "add"
  /\ io.persist.op = "insert"
  /\ ~req.isAdmin
  /\ \E f \in Range(meta.owner) : req.owner[f] # req.authId
  /\ \A f \in Range(meta.owner) : io.persist.owner[f] = req.authId

\* C4: in the detail handler of a model with owner-verified fields, a
\* non-admin request for a stored record with at least one owner-verified
\* field that differs from the caller's id ends with
\* DatabaseError(NoRecord) and no response, each field being compared on
\* its own.
C4_DetailOwnerCheck ==
  (/\ handler = "getOne"
   /\ Finished
   /\ Len(meta.owner) # 0
   /\ ~req.isAdmin
   /\ store.exists
   /\ \E f \in Range(meta.owner) : store.owner[f] # req.authId)
    => (io.thrown = "DBNoRecord" /\ ~io.sent)

\* C5: in the update handler of a model with owner-verified fields, a
\* non-admin request for a stored record with an owner-verified field that
\* differs from the caller's id never reaches update().
C5_UpdateRechecksStored ==
  (/\ handler = "update"
   /\ Len(meta.owner) # 0
   /\ ~req.isAdmin
   /\ store.exists
   /\ \E f \in Range(meta.owner) : store.owner[f] # req.authId)
    => io.persist.op # "update"

\* C6: in the detail, update and delete handlers, for every model and
\* caller, once the lookup by id has returned no record the handler makes
\* no persistence call, sends no response, and ends with
\* DatabaseError(NoRecord).
C6_NoRecordThrows ==
  (/\ handler \in {"getOne", "update", "remove"}
   /\ \E i \in DOMAIN Code : Code[i].op \in {"find", "findById"} /\ pc > i
   /\ ~store.exists)
    => /\ io.persist.op = "none"
       /\ ~io.sent
       /\ (Finished => io.thrown = "DBNoRecord")

\* C7: in the remove and upload handlers a failed
\* FileUploader.checkAndDeleteFile call is swallowed: the handler ends
\* without a throw, having made its persistence call and sent the response.
C7_DeleteFailureSwallowed ==
  (/\ handler \in {"remove", "upload"}
   /\ Finished
   /\ io.failed # {})
    => /\ io.thrown = "none"
       /\ io.persist.op \in {"remove", "update"}
       /\ io.sent

\* C8: in the upload handler of a model with two or more File fields, the
\* delete-and-replace call of every uploaded field has been started when
\* the handler reaches the joint wait, and update() is called only after
\* every one of them has settled.
C8_UpdateAfterAllSettled ==
  (handler = "upload" /\ Len(meta.files) >= 2) =>
    /\ (pc >= Pos(Code, "awaitAll")) =>
         \A f \in frame.upl : dels[f] # "idle"
    /\ (io.persist.op = "update") =>
         \A f \in Range(meta.files) : dels[f] = (IF f \in frame.upl THEN "fulfilled" ELSE "idle")

C8_Witness ==
  /\ handler = "upload"
  /\ Cardinality(frame.upl) >= 2
  /\ io.persist.op = "update"
  /\ \A f \in frame.upl : dels[f] = "fulfilled" /\ frame.instance.files[f] = "new"

\* C9: after any number of runs of generate() the registry holds the
\* controller's import statement at most once and its property binding at
\* most once, whatever markers the registry has.
C9_NoDuplicateInRegistry ==
  /\ Count(registry, importCode) <= 1
  /\ Count(registry, embedCode) <= 1

\* C10: for a model without owner-verified fields the detail, list, create
\* and update handlers hold no authUser/isAdmin binding, no ownership
\* comparison, no owner filter and no owner assignment.
C10_NoOwnerClause ==
  (controller.written /\ meta.hasModel /\ Len(meta.owner) = 0) =>
    \A kind \in ResponseKinds :
      \A st \in Range(Body(controller, kind)) :
        /\ st.op \notin {"authUser", "ifNonAdminFilter", "ifNonAdminAssign",
                         "ifNonAdminNoRecordOrNotOwner"}
        /\ st.checks = << >>

C10_Witness ==
  /\ Len(meta.owner) = 0
  /\ handler = "update"
  /\ io.persist.op = "update"
  /\ io.sent
  /\ ~frame.authUser

\* The run of init() ended at one of its two Log.error returns, having
\* constructed no generator and called neither mkdir nor writeFile.
Aborted ==
  /\ cli.logged # ""
  /\ cli.thrown = "none"
  /\ ~cli.constructed
  /\ ~cli.mkdir
  /\ cli.writes = {}
  /\ ~controller.written
  /\ registry = StandardRegistry

\* C11 as stated: init() aborts with a logged error and no construction,
\* mkdir or writeFile whenever the name is missing, or is not one or more
\* lower-case letters (^[a-z]+$), or the --model value is "true".
C11_AbortsAsStated ==
  (/\ cli.called
   /\ \/ Len(cli.name) = 0
      \/ \E i \in DOMAIN cli.name : cli.name[i] \notin Lower
      \/ (cli.model # Null /\ modelToString(cli.model) = "true"))
    => Aborted

\* C11 amended: init() aborts with a logged error and no construction,
\* mkdir or writeFile whenever the name is missing, or is not one or more
\* letters of either case (/^[a-z]+$/i; a digit is no letter), or the
\* --model value is "true".
C11_AbortsOnInvalidArgs ==
  (/\ cli.called
   /\ \/ Len(cli.name) = 0
      \/ \E i \in DOMAIN cli.name : cli.name[i] \notin Lower \cup Upper
      \/ (cli.model # Null /\ modelToString(cli.model) = "true"))
    => Aborted

C11_Witness ==
  /\ cli.called
  /\ \E i \in DOMAIN cli.name : cli.name[i] \in Digit
  /\ cli.model = "User"
  /\ Aborted

\* C12 as stated: in the update handler of a model with owner-verified
\* fields the ownership check, with the lookup it needs, has run when
\* validate() runs; and a failed validation leaves no persistence call.
C12_OwnerCheckBeforeValidate ==
  /\ (handler = "update" /\ Len(meta.owner) # 0 /\ pc > Pos(Code, "validate"))
       => (pc > Pos(Code, "findById") /\ pc > Pos(Code, "ifNoRecordOrNotOwner"))
  /\ (handler \in {"add", "update"} /\ io.thrown = "ValidationError")
       => io.persist.op = "none"

\* C12 amended: in the create and update handlers the owner assignment
\* comes before validate(), and validate() before insert()/update(); a
\* rejected body ends the handler with ValidationError, with no persistence
\* call and no response.  In the update handler the lookup of the stored
\* record and the ownership guard come after validate() and before update().
C12_ValidateBeforePersist ==
  controller.written =>
    LET add == Body(controller, "add")
        upd == Body(controller, "update")
    IN  /\ (Len(meta.owner) # 0) =>
             /\ Pos(add, "ifNonAdminAssign") < Pos(add, "validate")
             /\ Pos(upd, "ifNonAdminAssign") < Pos(upd, "validate")
        /\ Pos(add, "validate") < Pos(add, "insert")
        /\ Pos(upd, "validate") < Pos(upd, "findById")
        /\ Pos(upd, "findById") < Pos(upd, "ifNoRecordOrNotOwner")
        /\ Pos(upd, "ifNoRecordOrNotOwner") < Pos(upd, "update")
        /\ (handler \in {"add", "update"} /\ ~req.valid) =>
             /\ io.persist.op = "none"
             /\ ~io.sent
             /\ (Finished => io.thrown = "ValidationError")

C12_Witness ==
  /\ handler = "update"
  /\ Len(meta.owner) # 0
  /\ ~req.isAdmin
  /\ store.exists
  /\ \E f \in Range(meta.owner) : store.owner[f] # req.authId
  /\ io.thrown = "ValidationError"
  /\ io.persist.op = "none"
  /\ frame.result = << >>

\* C13: a run with a valid name and no --model option completes
\* generation: no exception, a written controller class with no CRUD
\* routes or handlers, and the patched registry.
C13_PlainControllerGenerated ==
  (cli.called /\ nameMatches(cli.name) /\ cli.model = Null) =>
    /\ cli.thrown = "none"
    /\ cli.constructed
    /\ "controller" \in cli.writes
    /\ controller = EmptyController
    /\ registry = patchRegistry(StandardRegistry)
    /\ contains(registry, importCode)

\* C14: in a detail, list, create or update handler that has a redaction
\* statement, the statement stands after every persistence call and before
\* res.json, it deletes from the object res.json serializes, and the
\* response sent carries none of the fields it deletes.
C14_RedactsTheResponse ==
  (handler \in ResponseKinds /\ Has(Code, "redact") /\ io.sent) =>
    LET r == Pos(Code, "redact")
        j == Pos(Code, "res.json")
    IN  /\ \A i \in DOMAIN Code :
             Code[i].op \in {"insert", "update", "remove"} => i < r
        /\ r < j
        /\ Code[r].names[2] = Code[j].names[1]
        /\ \A k \in DOMAIN io.response :
             io.response[k].paths \cap Range(Code[r].paths) = {}

\* C15: after generate() on a registry that lacks both markers the registry
\* holds neither the import nor the binding; and when either marker is
\* missing, neither line has been inserted.
C15_MissingMarkerNoInsertion ==
  controller.written =>
    /\ (~contains(registry, PlaceholderImport)
          /\ ~contains(registry, PlaceholderExpressController))
         => (~contains(registry, importCode) /\ ~contains(registry, embedCode))
    /\ (~contains(registry, PlaceholderImport)
          \/ ~contains(registry, PlaceholderExpressController))
         => (~contains(registry, importCode) /\ ~contains(registry, embedCode))

====
